---- MODULE Spec2Model ----
(***************************************************************************)
(* Model of vslam_system/src/nodes/ptcloud_vslam_node.cpp: the stereo +    *)
(* point-cloud VSLAM node.  The node owns one ROS callback queue served by *)
(* ros::spin() (main), two callbacks (configCb, imageCb) and the free      *)
(* function publishPointclouds that turns the SBA tracks into a colored    *)
(* point cloud.                                                            *)
(***************************************************************************)
EXTENDS Integers, Sequences, FiniteSets, TLC

(* ------------------------------ bounds --------------------------------- *)
\* aligned tuples delivered to imageCb over a run
MaxFrames == 4
\* configuration requests arriving after construction
MaxConfigs == 1
\* callbacks waiting in the ROS callback queue
MaxQueue == 2
\* tracks held by the map
MaxTracks == 1
\* largest frame (node) index a projection may carry in the extractor harness
MaxFrame == 3
\* projections per track in the extractor harness
MaxProj == 2
\* coordinates of a point range over -MaxCoord..MaxCoord
MaxCoord == 2
\* number of times the remap harness applies the remap
MaxApply == 3
\* nodes one accepted frame may add to the map
MaxGrow == 1

(* --------------------------- program constants ------------------------- *)
\* const int LARGE_SBA_INTERVAL = 1;
LARGE_SBA_INTERVAL == 1
\* if (prjs.size() < 2) continue;
MinProjections == 2

VARIABLES
  queue,        \* ROS callback queue: callbacks waiting for ros::spin()
  running,      \* activations of callbacks being executed (cb, pc, locals)
  seq,          \* aligned tuples delivered so far (header.seq of the last one)
  ncfg,         \* configuration snapshots requested so far
  detectorCfg,  \* snapshot whose detector parameters frame_processor_ holds
  ransacCfg,    \* snapshot whose vo_ransac_iterations the VO holds
  polishCfg,    \* snapshot whose vo_polish flag the VO holds
  nodes,        \* vslam_system_.sba_.nodes.size()
  tracks,       \* vslam_system_.sba_.tracks
  subs,         \* pointcloud_pub_.getNumSubscribers()
  cloud,        \* the last cloud handed to pointcloud_pub_.publish
  submits,      \* per tuple: number of addFrame calls made with it
  sizes,        \* node counts read after each accepted frame, in order
  nrefines,     \* vslam_system_.refine() calls begun so far
  p0,           \* remap harness: the point drawn
  p,            \* remap harness: the point after `applied` remaps
  applied       \* remap harness: remaps applied to p0

vars == <<queue, running, seq, ncfg, detectorCfg, ransacCfg, polishCfg, nodes,
          tracks, subs, cloud, submits, sizes, nrefines, p0, p, applied>>

pipeVars == <<queue, running, seq, ncfg, detectorCfg, ransacCfg, polishCfg,
              nodes, subs, submits, sizes, nrefines>>
mapVars == <<tracks, cloud>>
remapVars == <<p0, p, applied>>


(* ------------------- publishPointclouds (lines 157-204) ---------------- *)
Min(S) == CHOOSE m \in S : \A n \in S : m <= n
max(a, b) == IF a < b THEN b ELSE a

\* sba::Proj, the two flags the extractor reads
Proj == [isValid : BOOLEAN, useCovar : BOOLEAN]

\* state of the scan before the first projection: pointplane = false, lastframe = 0
ScanStart == [pointplane |-> FALSE, lastframe |-> 0]

\* the isValid test is missing: discarded observations are scanned too
ScanStepCountingInvalid(acc, frame, prj) ==
  [pointplane |-> (IF prj.useCovar THEN TRUE ELSE acc.pointplane),
   lastframe  |-> max(frame, acc.lastframe)]

\* one iteration of the loop over the ProjMap
ScanStep(acc, frame, prj) ==
  IF ~prj.isValid THEN acc
  ELSE [pointplane |-> (IF prj.useCovar THEN TRUE ELSE acc.pointplane),
        lastframe  |-> max(frame, acc.lastframe)]

\* the loop over the ProjMap, a std::map iterated in increasing key order
RECURSIVE ScanProjections(_, _, _)
ScanProjections(prjs, keys, acc) ==
  IF keys = {} THEN acc
  ELSE LET k == Min(keys)
       IN  ScanProjections(prjs, keys \ {k}, ScanStep(acc, k, prjs[k]))

\* the sign of the last component is lost
RemapKeepingSign(pt) == <<pt[3], -pt[1], pt[2]>>

\* cloud.points[i].x/y/z from sba.tracks[i].point(2), -point(0), -point(1)
Remap(pt) == <<pt[3], -pt[1], -pt[2]>>

\* the green and blue branches are exchanged
ColorSwapped(pointplane, lastframe) ==
  IF ~pointplane THEN <<255, 255, 255>>
  ELSE IF lastframe = 1 THEN <<255, 0, 0>>
  ELSE IF lastframe = 2 THEN <<0, 0, 255>>
  ELSE IF lastframe = 3 THEN <<0, 255, 0>>
  ELSE <<150, 150, 150>>

\* the if / else-if chain choosing r, g, b
Color(pointplane, lastframe) ==
  IF ~pointplane THEN <<255, 255, 255>>
  ELSE IF lastframe = 1 THEN <<255, 0, 0>>
  ELSE IF lastframe = 2 THEN <<0, 255, 0>>
  ELSE IF lastframe = 3 THEN <<0, 0, 255>>
  ELSE <<150, 150, 150>>

\* v << n on an int; v is an unsigned char and n at most 16, so the result
\* stays below 2^24 and no bit is lost
Shl(v, n) == v * 2^n

\* a | b on non-negative ints
RECURSIVE BitOr(_, _)
BitOr(a, b) ==
  IF a = 0 THEN b
  ELSE IF b = 0 THEN a
  ELSE (IF a % 2 = 1 \/ b % 2 = 1 THEN 1 ELSE 0) + 2 * BitOr(a \div 2, b \div 2)

\* green is shifted like red
PackRGBGreenShifted(c) == BitOr(BitOr(Shl(c[1], 16), Shl(c[2], 16)), c[3])

\* int32_t rgb_packed = (r << 16) | (g << 8) | b;
PackRGB(c) == BitOr(BitOr(Shl(c[1], 16), Shl(c[2], 8)), c[3])

\* an element of cloud.points after resize(): value-initialised, never written
\* for a track the loop skips
DefaultPoint == [x |-> 0, y |-> 0, z |-> 0, rgb |-> 0]

\* if (prjs.size() < 2) continue;  -- the negation: the track is processed
Retained(track) == Cardinality(DOMAIN track.projections) >= MinProjections

\* the body of the loop over the tracks: what cloud.points[i] holds afterwards
CloudPoint(track) ==
  IF ~Retained(track) THEN DefaultPoint
  ELSE LET scan == ScanProjections(track.projections,
                                   DOMAIN track.projections, ScanStart)
           xyz  == Remap(track.point)
       IN  [x |-> xyz[1], y |-> xyz[2], z |-> xyz[3],
            rgb |-> PackRGB(Color(scan.pointplane, scan.lastframe))]

\* cloud.points.resize(sba.tracks.size()) and the loop: the cloud published
publishPointclouds(trks) == [i \in 1..Len(trks) |-> CloudPoint(trks[i])]

(* ------------------------ the map (VslamSystem) ------------------------ *)
\* positions given to tracks created while the pipeline runs
FramePoints == {<<1, 2, 3>>}

\* a track first seen when node `n - 1` joined the map: observed in the two
\* newest frames, both observations valid
NewTrack(n, covar, pt) ==
  [point |-> pt,
   projections |-> [f \in {n - 2, n - 1} |-> [isValid |-> TRUE, useCovar |-> covar]]]

\* VslamSystem::addFrame, as the node sees it: a rejected frame leaves the map
\* as it was; an accepted one adds zero or more nodes and may add a track
AddFrameOutcomes(n, trks) ==
  {[accepted |-> FALSE, nodes |-> n, tracks |-> trks]}
  \cup {[accepted |-> TRUE, nodes |-> n + d, tracks |-> trks] : d \in 0..MaxGrow}
  \cup {[accepted |-> TRUE, nodes |-> n + 1,
         tracks |-> Append(trks, NewTrack(n + 1, c, pt))] :
          c \in {b \in BOOLEAN : Len(trks) < MaxTracks /\ n >= 1}, pt \in FramePoints}

(* ----------------------- callbacks and activations --------------------- *)
ImageCallback(id, l, r) == [kind |-> "image", id |-> id, leftOk |-> l, rightOk |-> r]
ConfigCallback(id) == [kind |-> "config", id |-> id, leftOk |-> TRUE, rightOk |-> TRUE]

\* a callback entered by the spinner: its position and its locals
Start(cb) ==
  [cb |-> cb,
   pc |-> IF cb.kind = "image" THEN "convert" ELSE "update",
   called |-> FALSE,      \* addFrame was called
   accepted |-> FALSE,    \* what addFrame returned
   nBefore |-> -1,        \* node count when addFrame was called
   nAfter |-> -1,         \* node count when addFrame returned
   cfgSeen |-> <<>>,      \* configuration in effect when addFrame was called
   size |-> -1,           \* int size (line 133); -1 until read
   drawn |-> FALSE,       \* sba::drawGraph was called
   published |-> 0,       \* calls of publishPointclouds
   refined |-> FALSE,     \* vslam_system_.refine() was called
   cloudBad |-> FALSE,    \* the cloud handed to addFrame is malformed (dead after the call)
   decided |-> FALSE,     \* the test of line 148 was evaluated
   pubSubs |-> -1,        \* getNumSubscribers() when the cloud was published
   pubAfterDecision |-> FALSE]  \* `decided` when the cloud was published

\* the activation r moves on as r2
Continue(r, r2) == running' = (running \ {r}) \cup {r2}

(* ------------------------------ ros::spin ------------------------------ *)
\* a multi-threaded spinner: callbacks are entered whatever is running
CanDispatchAsync == TRUE

\* image callbacks entered concurrently with each other
CanDispatchConcurrentImages == \A r \in running : r.cb.kind = "image"

\* ros::spin(): one thread serves the callback queue, so a callback is entered
\* only when the previous one has returned
CanDispatch == running = {}

\* the spinner takes the oldest callback off the queue and enters it
SpinOnce ==
  /\ CanDispatch
  /\ queue # <<>>
  /\ running' = running \cup {Start(Head(queue))}
  /\ queue' = Tail(queue)
  /\ UNCHANGED <<seq, ncfg, detectorCfg, ransacCfg, polishCfg, nodes, subs,
                 submits, sizes, nrefines>>
  /\ UNCHANGED <<mapVars, remapVars>>

(* ------------------------------ environment ---------------------------- *)
\* the synchronizer has an aligned tuple: imageCb(l_image, ..., ptcloud_msg)
\* is due; l and r tell whether the two images will convert to mono8
TupleArrives(l, r) ==
  /\ seq < MaxFrames
  /\ Len(queue) < MaxQueue
  /\ seq' = seq + 1
  /\ queue' = Append(queue, ImageCallback(seq + 1, l, r))
  /\ UNCHANGED <<running, ncfg, detectorCfg, ransacCfg, polishCfg, nodes, subs,
                 submits, sizes, nrefines>>
  /\ UNCHANGED <<mapVars, remapVars>>

\* a reconfigure request: configCb(config, level) is due
ConfigArrives ==
  /\ ncfg < MaxConfigs
  /\ Len(queue) < MaxQueue
  /\ ncfg' = ncfg + 1
  /\ queue' = Append(queue, ConfigCallback(ncfg + 1))
  /\ UNCHANGED <<running, seq, detectorCfg, ransacCfg, polishCfg, nodes, subs,
                 submits, sizes, nrefines>>
  /\ UNCHANGED <<mapVars, remapVars>>

\* a subscriber of /vslam/pointcloud connects or disconnects
SubscriberChange ==
  /\ subs' = 1 - subs
  /\ UNCHANGED <<queue, running, seq, ncfg, detectorCfg, ransacCfg, polishCfg,
                 nodes, submits, sizes, nrefines>>
  /\ UNCHANGED <<mapVars, remapVars>>

(* ------------------------ configCb (lines 91-98) ----------------------- *)
\* the three setters configCb calls, each given the snapshot `c`: what the
\* frame processor and the VO hold afterwards
DetectorAfterUpdate(c) == c
RansacItAfterSet(c) == c
PolishAfterSet(c) == c

\* AnyDetector::update(config); frame_processor_.detector = detector_;
configCb_update(r) ==
  /\ r.cb.kind = "config" /\ r.pc = "update"
  /\ detectorCfg' = DetectorAfterUpdate(r.cb.id)
  /\ Continue(r, [r EXCEPT !.pc = "setVORansacIt"])
  /\ UNCHANGED <<queue, seq, ncfg, ransacCfg, polishCfg, nodes, subs,
                 submits, sizes, nrefines>>
  /\ UNCHANGED <<mapVars, remapVars>>

\* the iteration count is not forwarded
configCb_withoutSetVORansacIt(r) ==
  /\ r.cb.kind = "config" /\ r.pc = "setVORansacIt"
  /\ Continue(r, [r EXCEPT !.pc = "setVOPolish"])
  /\ UNCHANGED <<queue, seq, ncfg, detectorCfg, ransacCfg, polishCfg, nodes,
                 subs, submits, sizes, nrefines>>
  /\ UNCHANGED <<mapVars, remapVars>>

\* vslam_system_.setVORansacIt(config.vo_ransac_iterations);
configCb_setVORansacIt(r) ==
  /\ r.cb.kind = "config" /\ r.pc = "setVORansacIt"
  /\ ransacCfg' = RansacItAfterSet(r.cb.id)
  /\ Continue(r, [r EXCEPT !.pc = "setVOPolish"])
  /\ UNCHANGED <<queue, seq, ncfg, detectorCfg, polishCfg, nodes, subs,
                 submits, sizes, nrefines>>
  /\ UNCHANGED <<mapVars, remapVars>>

\* vslam_system_.setVOPolish(config.vo_polish); and the callback returns
configCb_setVOPolish(r) ==
  /\ r.cb.kind = "config" /\ r.pc = "setVOPolish"
  /\ polishCfg' = PolishAfterSet(r.cb.id)
  /\ Continue(r, [r EXCEPT !.pc = "return"])
  /\ UNCHANGED <<queue, seq, ncfg, detectorCfg, ransacCfg, nodes, subs,
                 submits, sizes, nrefines>>
  /\ UNCHANGED <<mapVars, remapVars>>

(* ------------------------ imageCb (lines 101-153) ---------------------- *)
\* only the left conversion is guarded
ConvertThrowsLeftOnly(cb) == ~cb.leftOk

\* the try block: imgMsgToCv of the left or of the right image throws
ConvertThrows(cb) == ~cb.leftOk \/ ~cb.rightOk

\* imageCb waits for addFrame again until a frame is accepted
AfterAddFrameWaiting(accepted) == IF accepted THEN "graph" ELSE "inAddFrame"

\* the result of addFrame is ignored
AfterAddFrameIgnoringResult(accepted) == "graph"

\* a rejected frame is submitted again
AfterAddFrameRetrying(accepted) == IF accepted THEN "graph" ELSE "addFrame"

\* if (vslam_system_.addFrame(...)) { ... }  -- where imageCb goes next
AfterAddFrame(accepted) == IF accepted THEN "graph" ELSE "return"

\* the size > 1 test is dropped
RefineDueAnySize(size) == size % LARGE_SBA_INTERVAL = 0

\* if (size > 1 && size % LARGE_SBA_INTERVAL == 0)
RefineDue(size) == size > 1 /\ size % LARGE_SBA_INTERVAL = 0

\* the large SBA is run before the cloud is published
NextStepRefineFirst(pc) ==
  CASE pc = "graph" -> "refine"
    [] pc = "refine" -> "cloud"
    [] pc = "cloud" -> "return"

\* the order of the statements in the accepted branch (lines 133-151): node
\* count and graph markers, then the point cloud, then the large SBA
NextStep(pc) ==
  CASE pc = "graph" -> "cloud"
    [] pc = "cloud" -> "refine"
    [] pc = "refine" -> "return"

\* the cloud is published whether or not anybody listens
ShouldPublishAlways(n) == TRUE

\* if (pointcloud_pub_.getNumSubscribers() > 0)
ShouldPublish(n) == n > 0

\* the scan erases the observations it skips
TracksAfterExtractionPruned(trks) ==
  [i \in DOMAIN trks |->
     [trks[i] EXCEPT !.projections =
        [f \in {g \in DOMAIN @ : @[g].isValid} |-> @[f]]]]

\* sba.tracks after publishPointclouds: prjs and prj are references into the
\* map but are only read
TracksAfterExtraction(trks) == trks

\* what pcl::fromROSMsg (line 129, outside the try block) does with a malformed
\* point cloud depends on the PCL version: it warns and returns a partly
\* filled cloud, or it throws pcl::InvalidConversionException
FromROSMsgOnMalformed == {"returns", "throws"}

\* lines 107-118: the two images are converted; a conversion error is logged
\* and the callback returns
imageCb_convert(r) ==
  /\ r.cb.kind = "image" /\ r.pc = "convert"
  /\ Continue(r, [r EXCEPT !.pc = IF ConvertThrows(r.cb) THEN "return"
                                  ELSE "addFrame"])
  /\ UNCHANGED <<queue, seq, ncfg, detectorCfg, ransacCfg, polishCfg, nodes,
                 subs, submits, sizes, nrefines>>
  /\ UNCHANGED <<mapVars, remapVars>>

\* lines 119-131: camera parameters and point cloud are built and addFrame is
\* called; whether the point cloud message is malformed shows here.  An
\* exception of fromROSMsg is caught nowhere: it leaves imageCb and ros::spin
\* and the activation stays at "uncaught", the node being gone
imageCb_addFrame(r) ==
  /\ r.cb.kind = "image" /\ r.pc = "addFrame"
  /\ \E bad \in BOOLEAN :
       \E o \in IF bad THEN FromROSMsgOnMalformed ELSE {"returns"} :
         IF o = "throws"
           THEN /\ UNCHANGED submits
                /\ Continue(r, [r EXCEPT !.pc = "uncaught", !.cloudBad = bad])
           ELSE /\ submits' = [submits EXCEPT ![r.cb.id] = @ + 1]
                /\ Continue(r, [r EXCEPT !.pc = "inAddFrame", !.called = TRUE,
                                         !.cloudBad = bad, !.nBefore = nodes,
                                         !.cfgSeen = <<detectorCfg, ransacCfg,
                                                       polishCfg>>])
  /\ UNCHANGED <<queue, seq, ncfg, detectorCfg, ransacCfg, polishCfg, nodes,
                 subs, sizes, nrefines>>
  /\ UNCHANGED <<mapVars, remapVars>>

\* addFrame returns: the map is as addFrame left it, and imageCb branches on
\* the result (line 131); the local cloud is not read again
addFrame_return(r) ==
  /\ r.cb.kind = "image" /\ r.pc = "inAddFrame"
  /\ \E o \in AddFrameOutcomes(nodes, tracks) :
       /\ nodes' = o.nodes
       /\ tracks' = o.tracks
       /\ Continue(r, [r EXCEPT !.pc = AfterAddFrame(o.accepted),
                                !.accepted = o.accepted, !.nAfter = o.nodes,
                                !.cloudBad = FALSE])
  /\ UNCHANGED <<queue, seq, ncfg, detectorCfg, ransacCfg, polishCfg, subs,
                 submits, sizes, nrefines, cloud>>
  /\ UNCHANGED remapVars

\* lines 133-134: the node count is read and the graph markers are drawn
imageCb_drawGraph(r) ==
  /\ r.cb.kind = "image" /\ r.pc = "graph"
  /\ sizes' = Append(sizes, nodes)
  /\ Continue(r, [r EXCEPT !.pc = NextStep("graph"), !.size = nodes,
                           !.drawn = TRUE])
  /\ UNCHANGED <<queue, seq, ncfg, detectorCfg, ransacCfg, polishCfg, nodes,
                 subs, submits, nrefines>>
  /\ UNCHANGED <<mapVars, remapVars>>

\* lines 144-145: with a subscriber, the colored cloud is built and published
imageCb_pointcloud(r) ==
  /\ r.cb.kind = "image" /\ r.pc = "cloud"
  /\ IF ShouldPublish(subs)
       THEN /\ cloud' = publishPointclouds(tracks)
            /\ tracks' = TracksAfterExtraction(tracks)
            /\ Continue(r, [r EXCEPT !.pc = NextStep("cloud"),
                                     !.published = @ + 1, !.pubSubs = subs,
                                     !.pubAfterDecision = r.decided])
       ELSE /\ UNCHANGED <<cloud, tracks>>
            /\ Continue(r, [r EXCEPT !.pc = NextStep("cloud")])
  /\ UNCHANGED <<queue, seq, ncfg, detectorCfg, ransacCfg, polishCfg, nodes,
                 subs, submits, sizes, nrefines>>
  /\ UNCHANGED remapVars

\* lines 147-151: the large SBA is started when due, else the callback returns
imageCb_refine(r) ==
  /\ r.cb.kind = "image" /\ r.pc = "refine"
  /\ IF RefineDue(r.size)
       THEN /\ nrefines' = nrefines + 1
            /\ Continue(r, [r EXCEPT !.pc = "inRefine", !.refined = TRUE,
                                     !.decided = TRUE])
       ELSE /\ UNCHANGED nrefines
            /\ Continue(r, [r EXCEPT !.pc = NextStep("refine"),
                                     !.decided = TRUE])
  /\ UNCHANGED <<queue, seq, ncfg, detectorCfg, ransacCfg, polishCfg, nodes,
                 subs, submits, sizes>>
  /\ UNCHANGED <<mapVars, remapVars>>

\* vslam_system_.refine() returns and imageCb goes on after line 151
refine_return(r) ==
  /\ r.cb.kind = "image" /\ r.pc = "inRefine"
  /\ Continue(r, [r EXCEPT !.pc = NextStep("refine")])
  /\ UNCHANGED <<queue, seq, ncfg, detectorCfg, ransacCfg, polishCfg, nodes,
                 subs, submits, sizes, nrefines>>
  /\ UNCHANGED <<mapVars, remapVars>>

\* the callback's closing brace: the activation ends and the spinner is free
callback_return(r) ==
  /\ r.pc = "return"
  /\ running' = running \ {r}
  /\ UNCHANGED <<queue, seq, ncfg, detectorCfg, ransacCfg, polishCfg, nodes,
                 subs, submits, sizes, nrefines>>
  /\ UNCHANGED <<mapVars, remapVars>>

(* --------------------------- the node's run ---------------------------- *)
\* the state when the constructor returns: nothing queued, an empty map, and
\* the default configuration applied once by reconfigure_server_.setCallback
Init ==
  /\ queue = <<>>
  /\ running = {}
  /\ seq = 0
  /\ ncfg = 0
  /\ detectorCfg = 0 /\ ransacCfg = 0 /\ polishCfg = 0
  /\ nodes = 0
  /\ tracks = <<>>
  /\ subs = 0
  /\ cloud = <<>>
  /\ submits = [k \in 1..MaxFrames |-> 0]
  /\ sizes = <<>>
  /\ nrefines = 0
  /\ p0 = <<0, 0, 0>> /\ p = <<0, 0, 0>> /\ applied = 0

Next ==
  \/ \E l \in BOOLEAN, r \in BOOLEAN : TupleArrives(l, r)
  \/ ConfigArrives
  \/ SubscriberChange
  \/ SpinOnce
  \/ \E r \in running : configCb_update(r)
  \/ \E r \in running : configCb_setVORansacIt(r)
  \/ \E r \in running : configCb_setVOPolish(r)
  \/ \E r \in running : imageCb_convert(r)
  \/ \E r \in running : imageCb_addFrame(r)
  \/ \E r \in running : addFrame_return(r)
  \/ \E r \in running : imageCb_drawGraph(r)
  \/ \E r \in running : imageCb_pointcloud(r)
  \/ \E r \in running : imageCb_refine(r)
  \/ \E r \in running : refine_return(r)
  \/ \E r \in running : callback_return(r)

Spec == Init /\ [][Next]_vars

\* what the node itself does: the spinner and the steps of the callbacks
Steps ==
  \/ SpinOnce
  \/ \E r \in running : configCb_update(r)
  \/ \E r \in running : configCb_setVORansacIt(r)
  \/ \E r \in running : configCb_setVOPolish(r)
  \/ \E r \in running : imageCb_convert(r)
  \/ \E r \in running : imageCb_addFrame(r)
  \/ \E r \in running : addFrame_return(r)
  \/ \E r \in running : imageCb_drawGraph(r)
  \/ \E r \in running : imageCb_pointcloud(r)
  \/ \E r \in running : imageCb_refine(r)
  \/ \E r \in running : refine_return(r)
  \/ \E r \in running : callback_return(r)

\* the spinner thread keeps running and the external addFrame and refine
\* calls return
SpecLive == Init /\ [][Next]_vars /\ WF_vars(Steps)

(* ------------- the extractor on an arbitrary map: SpecCloud ------------ *)
\* every ProjMap over the frames 0..MaxFrame with at most MaxProj entries
ProjMaps ==
  UNION {[S -> Proj] : S \in {T \in SUBSET (0..MaxFrame) : Cardinality(T) <= MaxProj}}

TrackShapes == {[point |-> pt, projections |-> m] : pt \in FramePoints, m \in ProjMaps}

TrackLists == UNION {[1..n -> TrackShapes] : n \in 0..MaxTracks}

\* an accepted frame's callback stands before line 144 with a subscriber
\* connected, over a map holding any tracks
InitCloud ==
  /\ queue = <<>>
  /\ running = {[Start(ImageCallback(1, TRUE, TRUE)) EXCEPT
                   !.pc = "cloud", !.called = TRUE, !.accepted = TRUE,
                   !.nBefore = MaxFrame, !.nAfter = MaxFrame + 1,
                   !.cfgSeen = <<0, 0, 0>>, !.size = MaxFrame + 1,
                   !.drawn = TRUE]}
  /\ seq = 1
  /\ ncfg = 0
  /\ detectorCfg = 0 /\ ransacCfg = 0 /\ polishCfg = 0
  /\ nodes = MaxFrame + 1
  /\ tracks \in TrackLists
  /\ subs = 1
  /\ cloud = <<>>
  /\ submits = [k \in 1..MaxFrames |-> IF k = 1 THEN 1 ELSE 0]
  /\ sizes = <<MaxFrame + 1>>
  /\ nrefines = 0
  /\ p0 = <<0, 0, 0>> /\ p = <<0, 0, 0>> /\ applied = 0

NextCloud == \E r \in running : imageCb_pointcloud(r)

SpecCloud == InitCloud /\ [][NextCloud]_vars

(* ---------------- the remap applied repeatedly: SpecRemap -------------- *)
Coords == (0 - MaxCoord)..MaxCoord

InitRemap ==
  /\ queue = <<>>
  /\ running = {}
  /\ seq = 0
  /\ ncfg = 0
  /\ detectorCfg = 0 /\ ransacCfg = 0 /\ polishCfg = 0
  /\ nodes = 0
  /\ tracks = <<>>
  /\ subs = 0
  /\ cloud = <<>>
  /\ submits = [k \in 1..MaxFrames |-> 0]
  /\ sizes = <<>>
  /\ nrefines = 0
  /\ p0 \in Coords \X Coords \X Coords
  /\ p = p0
  /\ applied = 0

ApplyRemap ==
  /\ applied < MaxApply
  /\ p' = Remap(p)
  /\ applied' = applied + 1
  /\ UNCHANGED <<p0, pipeVars, mapVars>>

NextRemap == ApplyRemap

SpecRemap == InitRemap /\ [][NextRemap]_vars

(* ------------------------------- claims -------------------------------- *)
ImageActs == {r \in running : r.cb.kind = "image"}
QueuedKinds == {queue[i].kind : i \in DOMAIN queue}

\* C1: a frame's callback issues the full refinement exactly when addFrame
\* accepted the frame and the node count n after addFrame has n > 1 and
\* n mod LARGE_SBA_INTERVAL = 0; so once every callback has returned the number
\* of refinements is the number of accepted frames whose count exceeded 1:
\* counts 1,2,3 give two refinements and counts 1,2,3,4 give three.
C1_RefineIffDue ==
  /\ \A r \in ImageActs :
       r.pc = "return" =>
         (r.refined <=> (r.accepted /\ r.nAfter > 1
                          /\ r.nAfter % LARGE_SBA_INTERVAL = 0))
  /\ running = {} =>
       /\ nrefines = Cardinality({i \in DOMAIN sizes : sizes[i] > 1})
       /\ sizes = <<1, 2, 3>> => nrefines = 2
       /\ sizes = <<1, 2, 3, 4>> => nrefines = 3

C1_Witness == running = {} /\ sizes = <<1, 2, 3, 4>> /\ nrefines = 3

\* C2: a frame addFrame rejected goes straight to the end of the callback: the
\* node count is not read, nothing is drawn or published, no refinement is
\* started, and the map has as many nodes as before the call.
C2_RejectedLeavesNoTrace ==
  \A r \in ImageActs :
    (r.called /\ r.pc # "inAddFrame" /\ ~r.accepted) =>
      /\ r.pc = "return"
      /\ r.size = -1 /\ ~r.drawn /\ r.published = 0 /\ ~r.refined
      /\ r.nAfter = r.nBefore /\ nodes = r.nBefore

\* frame 1 was accepted, frame 2 is rejected and the next tuple is waiting
C2_Witness ==
  \E r \in ImageActs :
    /\ r.cb.id = 2 /\ r.called /\ ~r.accepted /\ r.pc = "return"
    /\ sizes = <<1>> /\ nodes = 1
    /\ "image" \in QueuedKinds

\* C6: while addFrame runs, the detector parameters, the RANSAC iteration count
\* and the polish flag in effect come from one configuration snapshot, the one
\* in effect when addFrame was called.
C6_NoMixedConfig ==
  \A r \in ImageActs :
    r.pc = "inAddFrame" =>
      /\ detectorCfg = ransacCfg /\ ransacCfg = polishCfg
      /\ r.cfgSeen = <<detectorCfg, ransacCfg, polishCfg>>

\* a configuration arrives while addFrame runs and waits in the queue
C6_Witness ==
  \E r \in ImageActs : r.pc = "inAddFrame" /\ "config" \in QueuedKinds

\* C7: at most one addFrame or refine call is in progress, and while frame k is
\* being processed (its refinement included) no later frame has been submitted
\* to addFrame.
C7_NoOverlap ==
  /\ Cardinality({r \in running : r.pc \in {"inAddFrame", "inRefine"}}) <= 1
  /\ \A r \in ImageActs :
       \A k \in DOMAIN submits : k > r.cb.id => submits[k] = 0

\* frame k is in refinement while frame k+1 waits in the queue
C7_Witness ==
  \E r \in ImageActs : r.pc = "inRefine" /\ "image" \in QueuedKinds

\* C8: a tuple whose left or right image fails to convert is never submitted to
\* addFrame; its callback reads no node count, draws and publishes nothing and
\* starts no refinement.
C8_DecodeFailureSkipsFrame ==
  \A r \in ImageActs :
    (~r.cb.leftOk \/ ~r.cb.rightOk) =>
      /\ r.pc \in {"convert", "return"}
      /\ ~r.called /\ submits[r.cb.id] = 0
      /\ r.size = -1 /\ ~r.drawn /\ r.published = 0 /\ ~r.refined

\* the right image alone fails and the callback is at its end
C8_Witness ==
  \E r \in ImageActs : r.pc = "return" /\ r.cb.leftOk /\ ~r.cb.rightOk

\* C9: no tuple is submitted to addFrame more than once.
C9_SubmittedAtMostOnce == \A k \in DOMAIN submits : submits[k] <= 1

\* two tuples were submitted, one accepted and one rejected, and both callbacks
\* have returned
C9_Witness ==
  running = {} /\ submits[1] = 1 /\ submits[2] = 1 /\ Len(sizes) = 1

\* the callbacks that have published a cloud
Publishers == {r \in ImageActs : r.published > 0}

\* a track's recorded projections, valid or not
NumProjections(t) == Cardinality(DOMAIN t.projections)
ValidFrames(t) == {f \in DOMAIN t.projections : t.projections[f].isValid}

\* pointplane and lastFrame as the extractor's contract states them
IsPointplane(t) == \E f \in ValidFrames(t) : t.projections[f].useCovar
LastFrame(t) ==
  IF ValidFrames(t) = {} THEN 0
  ELSE CHOOSE f \in ValidFrames(t) : \A g \in ValidFrames(t) : g <= f

\* the color table of the contract, and the components of a packed color
TableColor(pp, lf) ==
  CASE ~pp -> <<255, 255, 255>>
    [] pp /\ lf = 1 -> <<255, 0, 0>>
    [] pp /\ lf = 2 -> <<0, 255, 0>>
    [] pp /\ lf = 3 -> <<0, 0, 255>>
    [] OTHER -> <<150, 150, 150>>
Unpacked(rgb) == <<(rgb \div 65536) % 256, (rgb \div 256) % 256, rgb % 256>>

\* C4 (as claimed): the published cloud has exactly one entry per track with
\* at least 2 recorded projections, so its length is the number of such tracks.
C4_OneEntryPerRetainedTrack ==
  Publishers # {} =>
    Len(cloud) = Cardinality({i \in DOMAIN tracks : NumProjections(tracks[i]) >= 2})

\* C5: in a published cloud, the entry of every track with at least 2
\* projections carries the color the table gives for (pointplane, lastFrame):
\* white when not pointplane, else red, green, blue for lastFrame 1, 2, 3 and
\* gray for any other lastFrame.
C5_ColorTable ==
  Publishers # {} =>
    \A i \in DOMAIN tracks :
      NumProjections(tracks[i]) >= 2 =>
        /\ i \in DOMAIN cloud
        /\ Unpacked(cloud[i].rgb)
             = TableColor(IsPointplane(tracks[i]), LastFrame(tracks[i]))

\* a published cloud holds a green entry for a pointplane track last seen in
\* frame 2 and the map also holds that track's invalid later observation
C5_Witness ==
  /\ Publishers # {}
  /\ \E i \in DOMAIN tracks :
       /\ NumProjections(tracks[i]) >= 2
       /\ IsPointplane(tracks[i]) /\ LastFrame(tracks[i]) = 2
       /\ 3 \in DOMAIN tracks[i].projections
       /\ Unpacked(cloud[i].rgb) = <<0, 255, 0>>

\* C10 (as claimed): the remap is an involution, two applications give the
\* point back.
C10_RemapInvolutive == applied = 2 => p = p0

\* C10 (amended): the remap has period three: two applications of
\* (x,y,z) -> (z,-x,-y) give (-y,-z,x) and three give (x,y,z) back.
C10_RemapPeriodThree ==
  /\ applied = 1 => p = <<p0[3], -p0[1], -p0[2]>>
  /\ applied = 2 => p = <<-p0[2], -p0[3], p0[1]>>
  /\ applied = 3 => p = p0

C10_Witness == applied = 3 /\ p0 = <<1, 2, -2>> /\ p = p0

\* C11: for every track with at least 2 projections, the scan leaves
\* pointplane true exactly when a valid projection has useCovar, and lastframe
\* at the largest frame index of a valid projection, 0 when there is none;
\* invalid projections change neither.
C11_ScanOverValidProjections ==
  Publishers # {} =>
    \A i \in DOMAIN tracks :
      NumProjections(tracks[i]) >= 2 =>
        ScanProjections(tracks[i].projections, DOMAIN tracks[i].projections,
                        ScanStart)
          = [pointplane |-> IsPointplane(tracks[i]),
             lastframe  |-> LastFrame(tracks[i])]

\* a published track whose newest observation is invalid and has useCovar: it
\* counts for neither value, and the entry is white
C11_Witness ==
  /\ Publishers # {}
  /\ \E i \in DOMAIN tracks :
       /\ DOMAIN tracks[i].projections = {1, 3}
       /\ tracks[i].projections[1] = [isValid |-> TRUE, useCovar |-> FALSE]
       /\ tracks[i].projections[3] = [isValid |-> FALSE, useCovar |-> TRUE]
       /\ ~IsPointplane(tracks[i]) /\ LastFrame(tracks[i]) = 1
       /\ cloud[i].rgb = 16777215

\* C12: the color stored for a track with at least 2 projections is
\* r*65536 + g*256 + b for the (r,g,b) of the table, lies in 0..2^24-1, and
\* gives r, g and b back by shifting and masking with 255.
C12_PackedColor ==
  Publishers # {} =>
    \A i \in DOMAIN tracks :
      NumProjections(tracks[i]) >= 2 =>
        LET c == TableColor(IsPointplane(tracks[i]), LastFrame(tracks[i]))
            rgb == cloud[i].rgb
        IN  /\ rgb = c[1] * 65536 + c[2] * 256 + c[3]
            /\ rgb >= 0 /\ rgb < 2^24
            /\ (rgb \div 2^16) % 256 = c[1]
            /\ (rgb \div 2^8) % 256 = c[2]
            /\ rgb % 256 = c[3]

\* a gray entry, the one color with all three bytes neither 0 nor 255
C12_Witness ==
  /\ Publishers # {}
  /\ \E i \in DOMAIN tracks :
       /\ NumProjections(tracks[i]) >= 2
       /\ cloud[i].rgb = 150 * 65536 + 150 * 256 + 150

ConfigActs == {r \in running : r.cb.kind = "config"}

\* the step in which some callback publishes a cloud
PublishStep ==
  \E r \in ImageActs :
    /\ r.published = 0
    /\ \E r2 \in ImageActs' : r2.cb = r.cb /\ r2.published > 0

\* C13: the step that builds and publishes the cloud leaves the tracks (their
\* number, positions and every projection's flags and frame index) and the
\* node count as they were.
C13_ExtractionReadOnly ==
  [][PublishStep => (tracks' = tracks /\ nodes' = nodes)]_vars

\* a cloud was published over a map holding a track with a discarded observation
C13_Witness ==
  /\ Publishers # {}
  /\ \E i \in DOMAIN tracks :
       /\ NumProjections(tracks[i]) >= 2
       /\ ValidFrames(tracks[i]) # DOMAIN tracks[i].projections
       /\ Len(cloud) = Len(tracks)

\* C14 (as claimed): within one accepted frame the refinement decision (and
\* the refinement) comes before the cloud is extracted and published.
C14_PublishAfterRefine ==
  \A r \in ImageActs : r.published > 0 => r.pubAfterDecision

\* C14 (amended): within one accepted frame the order is addFrame, then the
\* node count and graph markers, then the cloud, then the refinement decision
\* and the refinement: a cloud is published before the frame's refinement.
C14_PublishBeforeRefine ==
  \A r \in ImageActs :
    /\ r.drawn => (r.called /\ r.accepted /\ r.size = r.nAfter)
    /\ r.published > 0 => (r.drawn /\ ~r.pubAfterDecision)
    /\ r.pc = "cloud" => (r.published = 0 /\ ~r.decided)
    /\ r.decided => r.drawn
    /\ r.refined => r.decided

\* a frame's cloud was published and its refinement has since run
C14_Witness ==
  \E r \in ImageActs : r.published > 0 /\ r.refined /\ r.pc = "return"

\* C15 (as claimed): a tuple with a malformed image or point cloud is never
\* submitted to addFrame and does not stop the node.
C15_DecodeErrorsRecoverable ==
  \A r \in ImageActs :
    (~r.cb.leftOk \/ ~r.cb.rightOk \/ r.cloudBad) =>
      (~r.called /\ r.pc # "uncaught")

\* C16: when configCb is at its end for snapshot c, the detector parameters,
\* the RANSAC iteration count and the polish flag are all those of c.
C16_ConfigTotal ==
  \A r \in ConfigActs :
    r.pc = "return" =>
      /\ detectorCfg = r.cb.id
      /\ ransacCfg = r.cb.id
      /\ polishCfg = r.cb.id

\* a snapshot that replaced the construction-time one has been applied
C16_Witness ==
  \E r \in ConfigActs : r.pc = "return" /\ r.cb.id = 1 /\ polishCfg = 1

\* an image callback that is entered and has neither reached its closing
\* brace nor been left by an exception
Active(k) ==
  \E r \in ImageActs : r.cb.id = k /\ r.pc \notin {"return", "uncaught"}

\* some image callback is in progress
Busy == \E k \in 1..MaxFrames : Active(k)

\* how far into imageCb a position is
Rank(pc) ==
  CASE pc = "convert" -> 0
    [] pc = "addFrame" -> 1
    [] pc = "inAddFrame" -> 2
    [] pc = "graph" -> 3
    [] pc = "cloud" -> 4
    [] pc = "refine" -> 5
    [] pc = "inRefine" -> 6
    [] pc = "return" -> 7
    [] pc = "uncaught" -> 7

\* every step of an image callback takes it further on
Advances ==
  \A r \in ImageActs :
    \A r2 \in ImageActs' :
      (r2.cb = r.cb /\ r2 # r) => Rank(r2.pc) > Rank(r.pc)

\* C18: provided addFrame and refine return, an invocation of imageCb that is
\* in progress ends (at its closing brace or by an exception leaving it): each
\* of its steps takes it further on, never back; and a published cloud has
\* exactly one entry per track, each track visited once.
C18_CallbacksFinish ==
  /\ Busy ~> ~Busy
  /\ [][Advances]_vars
  /\ [](Publishers # {} => DOMAIN cloud = DOMAIN tracks)

\* all tuples were processed, at least one refined, and the spinner is idle
C18_Witness ==
  /\ running = {} /\ queue = <<>> /\ seq = MaxFrames
  /\ nrefines > 0 /\ tracks # <<>>

\* C19: a callback publishes at most one cloud, and only for a frame addFrame
\* accepted and with at least one subscriber at the moment of publishing.
C19_PublishGuard ==
  \A r \in ImageActs :
    /\ r.published <= 1
    /\ r.published > 0 => (r.called /\ r.accepted /\ r.pubSubs > 0)

\* a cloud was published and the subscriber has left since
C19_Witness ==
  \E r \in ImageActs : r.published = 1 /\ subs = 0

====
